---- MODULE Spec2Model ----
(***************************************************************************)
(* Model of src/app.py: the configuration-driven ETL run (ETL.run), the    *)
(* two transformations it dispatches to (rename, set_types), the pandas    *)
(* operations they rest on, and PostgresDestination.write_data.            *)
(*                                                                         *)
(* A DataFrame is a record [cols, rows]: cols the sequence of column       *)
(* names, rows a sequence of rows, each a sequence of cells aligned with   *)
(* cols.  A cell is [kind, val]: kind is "int", "float", "str" or "nan"    *)
(* and val is the text of the value, so that a conversion changes the      *)
(* cell ("1" the string, 1 the int and 1.0 the float are three cells).     *)
(***************************************************************************)
EXTENDS Integers, Sequences, FiniteSets, TLC

\* ------------------------------------------------------------------ bounds
MaxRows == 2
MaxSpecs == 2
MaxSteps == 2
MaxJoins == 2

\* ------------------------------------------------------------------- cells
IntLits == <<"1", "2", "3">>
FloatLits == <<"1.0", "2.0", "3.0">>

Range(s) == {s[i] : i \in 1..Len(s)}

NaN == [kind |-> "nan", val |-> "nan"]
IntCell(s) == [kind |-> "int", val |-> s]
FloatCell(s) == [kind |-> "float", val |-> s]
StrCell(s) == [kind |-> "str", val |-> s]

IntToFloat(s) == FloatLits[CHOOSE i \in 1..Len(IntLits) : IntLits[i] = s]
FloatToInt(s) == IntLits[CHOOSE i \in 1..Len(FloatLits) : FloatLits[i] = s]

IsNa(c) == c.kind = "nan"
AsFloat(c) == IF c.kind = "int" THEN FloatCell(IntToFloat(c.val)) ELSE c

\* ------------------------------------------------------------- DataFrames
EmptyFrame == [cols |-> <<>>, rows |-> <<>>]

IndexOf(cols, k) ==
    IF \E i \in 1..Len(cols) : cols[i] = k
    THEN CHOOSE i \in 1..Len(cols) : cols[i] = k
    ELSE 0

Column(df, j) == [i \in 1..Len(df.rows) |-> df.rows[i][j]]

\* df[k] = values : the column at position j is replaced cell by cell.
SetColumn(df, j, values) ==
    [df EXCEPT !.rows = [i \in 1..Len(df.rows) |->
                            [df.rows[i] EXCEPT ![j] = values[i]]]]

RECURSIVE FilterRows(_, _)
FilterRows(rows, keep) ==
    IF rows = <<>> THEN <<>>
    ELSE IF keep[1] THEN <<rows[1]>> \o FilterRows(Tail(rows), Tail(keep))
         ELSE FilterRows(Tail(rows), Tail(keep))

\* A set_types that forgets the dropna: every row stays.
dropna_forgotten(df, j) == df

\* DataFrame.dropna(subset=[k]) : the rows whose cell in column j is missing go.
dropna(df, j) ==
    [df EXCEPT !.rows = FilterRows(df.rows,
                                   [i \in 1..Len(df.rows) |-> ~IsNa(df.rows[i][j])])]

\* DataFrame.drop_duplicates() : a row equal to an earlier row goes.
drop_duplicates(df) ==
    [df EXCEPT !.rows = FilterRows(df.rows,
        [i \in 1..Len(df.rows) |-> ~\E h \in 1..(i - 1) : df.rows[h] = df.rows[i]])]

\* pd.read_csv's inference on one column of text: all integer literals give
\* an int64 column; integer literals and empty fields give float64 with NaN;
\* anything else gives an object column of strings with NaN for empty fields.
InferColumn(texts) ==
    IF \A i \in 1..Len(texts) : texts[i] \in Range(IntLits)
    THEN [i \in 1..Len(texts) |-> IntCell(texts[i])]
    ELSE IF \A i \in 1..Len(texts) : texts[i] \in Range(IntLits) \cup {""}
    THEN [i \in 1..Len(texts) |->
             IF texts[i] = "" THEN NaN ELSE FloatCell(IntToFloat(texts[i]))]
    ELSE [i \in 1..Len(texts) |->
             IF texts[i] = "" THEN NaN ELSE StrCell(texts[i])]

read_csv(raw) ==
    LET col(j) == InferColumn([i \in 1..Len(raw.rows) |-> raw.rows[i][j]])
    IN [cols |-> raw.cols,
        rows |-> [i \in 1..Len(raw.rows) |->
                     [j \in 1..Len(raw.cols) |-> col(j)[i]]]]

\* ---------------------------------------------------------------- results
\* What a pandas call gives: exc is "none" and df the value returned, or exc
\* is the exception raised.
Ok(df) == [exc |-> "none", df |-> df]
Raised(exc) == [exc |-> exc, df |-> EmptyFrame]

\* What a transformation gives: exc and df as above, and arg, the state the
\* call leaves the caller's frame object in (a transformation that assigns
\* to a column of its argument changes the caller's object).
Returned(df, arg) == [exc |-> "none", df |-> df, arg |-> arg]
RaisedIn(exc, arg) == [exc |-> exc, df |-> EmptyFrame, arg |-> arg]

\* ------------------------------------------------------------------ rename
\* parameters is the mapping in its iteration order: a sequence of <<key,
\* value>> pairs with distinct keys.
Keys(parameters) == {parameters[i][1] : i \in 1..Len(parameters)}
Lookup(parameters, k) ==
    parameters[CHOOSE i \in 1..Len(parameters) : parameters[i][1] = k][2]

\* DataFrame.rename(columns=mapper), errors='ignore' by default: a key that
\* is no column is passed over.  The result is a new frame.
DataFrameRename(df, mapper) ==
    [df EXCEPT !.cols = [i \in 1..Len(df.cols) |->
                            IF df.cols[i] \in Keys(mapper)
                            THEN Lookup(mapper, df.cols[i])
                            ELSE df.cols[i]]]

rename(df, parameters) == Returned(DataFrameRename(df, parameters), df)

\* --------------------------------------------------------------- set_types
\* pd.to_numeric(series, errors='coerce') on one cell.
ToNumericCell(c) ==
    IF c.kind = "str"
    THEN IF c.val \in Range(IntLits) THEN IntCell(c.val)
         ELSE IF c.val \in Range(FloatLits) THEN FloatCell(c.val)
         ELSE NaN
    ELSE c

\* The coerced column is int64 when every value parsed to an integer and
\* float64 otherwise.
to_numeric(values) ==
    LET parsed == [i \in 1..Len(values) |-> ToNumericCell(values[i])]
    IN IF \A i \in 1..Len(parsed) : parsed[i].kind = "int"
       THEN parsed
       ELSE [i \in 1..Len(parsed) |-> AsFloat(parsed[i])]

Dtypes == {"int", "str"}

\* Series.astype(t) on one cell; "ValueError" where the value does not convert.
AstypeCell(c, t) ==
    IF t = "str"
    THEN Ok(StrCell(c.val))
    ELSE \* t = "int"
         IF c.kind = "int" THEN Ok(c)
         ELSE IF c.kind = "float" THEN Ok(IntCell(FloatToInt(c.val)))
         ELSE IF c.kind = "str" /\ c.val \in Range(IntLits) THEN Ok(IntCell(c.val))
         ELSE Raised("ValueError")

\* Series.astype(t): "TypeError" where t names no dtype.
astype(values, t) ==
    IF t \notin Dtypes THEN Raised("TypeError")
    ELSE IF \E i \in 1..Len(values) : AstypeCell(values[i], t).exc # "none"
    THEN Raised("ValueError")
    ELSE Ok([i \in 1..Len(values) |-> AstypeCell(values[i], t).df])

\* The loop of set_types from parameter i on.  df is the local name's frame;
\* arg is the caller's object, which df still is (aliased) until the first
\* dropna rebinds df to a new frame.
RECURSIVE SetTypesFrom(_, _, _, _, _)
SetTypesFrom(df, arg, aliased, parameters, i) ==
    IF i > Len(parameters) THEN Returned(df, arg)
    ELSE LET k == parameters[i][1]
             t == parameters[i][2]
             j == IndexOf(df.cols, k)
         IN IF j = 0 THEN RaisedIn("KeyError", arg)
            ELSE IF t = "to_numeric"
            THEN LET set == SetColumn(df, j, to_numeric(Column(df, j)))
                 IN SetTypesFrom(dropna(set, j), IF aliased THEN set ELSE arg,
                                 FALSE, parameters, i + 1)
            ELSE LET cast == astype(Column(df, j), t)
                 IN IF cast.exc # "none" THEN RaisedIn(cast.exc, arg)
                    ELSE LET set == SetColumn(df, j, cast.df)
                         IN SetTypesFrom(set, IF aliased THEN set ELSE arg,
                                         aliased, parameters, i + 1)

set_types(df, parameters) == SetTypesFrom(df, df, TRUE, parameters, 1)

\* ------------------------------------------------------------------- merge
JoinKinds == {"inner", "left", "right", "outer"}

\* The dtype pandas holds a column of cells under.
Dtype(values) ==
    IF \A i \in 1..Len(values) : values[i].kind = "int" THEN "int64"
    ELSE IF \A i \in 1..Len(values) : values[i].kind \in {"int", "float", "nan"}
    THEN "float64"
    ELSE "object"

\* Two join keys match when they are the same value; missing keys match each
\* other, and 1 matches 1.0.
KeyOf(c) == IF c.kind = "float" THEN IntCell(FloatToInt(c.val)) ELSE c
KeyEq(a, b) == KeyOf(a) = KeyOf(b)

\* The sort position of a key: numbers by value, missing last.  The keys the
\* joins of this model meet are integers; string keys are placed between.
KeyRank(c) ==
    LET key == KeyOf(c)
    IN IF key.kind = "int"
       THEN CHOOSE i \in 1..Len(IntLits) : IntLits[i] = key.val
       ELSE IF key.kind = "str" THEN Len(IntLits) + 1
       ELSE Len(IntLits) + 2

RemoveAt(s, j) == [i \in 1..(Len(s) - 1) |-> IF i < j THEN s[i] ELSE s[i + 1]]

RECURSIVE Flatten(_)
Flatten(ss) == IF ss = <<>> THEN <<>> ELSE Head(ss) \o Flatten(Tail(ss))

\* Overlapping columns other than the key get the suffixes _x and _y.
MergedColumns(left, right, on) ==
    LET others(df) == Range(df.cols) \ {on}
        lcols == [i \in 1..Len(left.cols) |->
                     IF left.cols[i] \in others(left) \cap others(right)
                     THEN left.cols[i] \o "_x" ELSE left.cols[i]]
        rkept == RemoveAt(right.cols, IndexOf(right.cols, on))
        rcols == [i \in 1..Len(rkept) |->
                     IF rkept[i] \in others(left) \cap others(right)
                     THEN rkept[i] \o "_y" ELSE rkept[i]]
    IN lcols \o rcols

\* The rows of the join, before the dtypes of the filled columns are settled.
MergedRows(left, right, on, how) ==
    LET li == IndexOf(left.cols, on)
        ri == IndexOf(right.cols, on)
        nl == Len(left.rows)
        nr == Len(right.rows)
        Pair(l, r) == l \o RemoveAt(r, ri)
        LeftOnly(l) == l \o [i \in 1..(Len(right.cols) - 1) |-> NaN]
        RightOnly(r) == [i \in 1..Len(left.cols) |-> IF i = li THEN r[ri] ELSE NaN]
                            \o RemoveAt(r, ri)
        Match(l, r) == KeyEq(l[li], r[ri])
        \* the right rows matching left row l, in the right frame's order
        ForLeft(l) == FilterRows([i \in 1..nr |-> Pair(l, right.rows[i])],
                                 [i \in 1..nr |-> Match(l, right.rows[i])])
        \* the left rows matching right row r, in the left frame's order
        ForRight(r) == FilterRows([i \in 1..nl |-> Pair(left.rows[i], r)],
                                  [i \in 1..nl |-> Match(left.rows[i], r)])
        LeftJoinRow(l) == IF ForLeft(l) = <<>> THEN <<LeftOnly(l)>> ELSE ForLeft(l)
        RightJoinRow(r) == IF ForRight(r) = <<>> THEN <<RightOnly(r)>> ELSE ForRight(r)
        \* how = "outer" sorts on the key: for each rank, the left rows of
        \* that rank with their matches, then the unmatched right rows of it.
        OfRank(n) ==
            Flatten(FilterRows([i \in 1..nl |-> LeftJoinRow(left.rows[i])],
                               [i \in 1..nl |-> KeyRank(left.rows[i][li]) = n]))
            \o FilterRows([i \in 1..nr |-> RightOnly(right.rows[i])],
                          [i \in 1..nr |-> /\ KeyRank(right.rows[i][ri]) = n
                                           /\ ForRight(right.rows[i]) = <<>>])
    IN CASE how = "inner" -> Flatten([i \in 1..nl |-> ForLeft(left.rows[i])])
         [] how = "left" -> Flatten([i \in 1..nl |-> LeftJoinRow(left.rows[i])])
         [] how = "right" -> Flatten([i \in 1..nr |-> RightJoinRow(right.rows[i])])
         [] how = "outer" -> Flatten([n \in 1..(Len(IntLits) + 2) |-> OfRank(n)])

\* An int64 column that received a NaN becomes float64.
Upcast(df) ==
    LET float(j) == /\ \E i \in 1..Len(df.rows) : IsNa(df.rows[i][j])
                    /\ \A i \in 1..Len(df.rows) :
                           df.rows[i][j].kind \in {"int", "float", "nan"}
    IN [df EXCEPT !.rows = [i \in 1..Len(df.rows) |->
           [j \in 1..Len(df.cols) |->
               IF float(j) THEN AsFloat(df.rows[i][j]) ELSE df.rows[i][j]]]]

\* left.merge(right, on=on, how=how), on one column name.
merge(left, right, on, how) ==
    LET li == IndexOf(left.cols, on)
        ri == IndexOf(right.cols, on)
    IN IF li = 0 \/ ri = 0 THEN Raised("KeyError")
       ELSE IF /\ left.rows # <<>>
               /\ right.rows # <<>>
               /\ (Dtype(Column(left, li)) = "object")
                      # (Dtype(Column(right, ri)) = "object")
       THEN Raised("ValueError")
       ELSE Ok(Upcast([cols |-> MergedColumns(left, right, on),
                       rows |-> MergedRows(left, right, on, how)]))

\* ----------------------------------------------------------- configuration
\* The source section of the configuration: the directories by table name,
\* in the order of the mapping.
SourceKeys == <<"orders", "customers">>
SourceTypes == {"csv", "parquet"}

\* The text a directory's CSV file can hold: its header, and up to MaxRows
\* rows drawn from the rows below.
CsvHeader(k) == IF k = "orders" THEN <<"id", "v", "w">> ELSE <<"id", "w">>
CsvRows(k) ==
    IF k = "orders"
    THEN {<<"1", "3", "2">>, <<"2", "x", "x">>, <<"2", "3", "x">>}
    ELSE {<<"2", "x">>, <<"3", "1">>}
CsvContents(k) ==
    {[cols |-> CsvHeader(k), rows |-> rows] :
        rows \in UNION {[1..n -> CsvRows(k)] : n \in 0..MaxRows}}

\* Table names a table spec or a join spec can give; "returns" is no source.
TableNames == {"orders", "customers", "returns"}

\* The steps a table spec can list: the name and the parameters mapping.
LambdaExpr == "lambda df, p: df"
Step(name, parameters) == [name |-> name, parameters |-> parameters]
Steps ==
    {Step("rename", <<(<<"id", "key">>)>>),
     Step("rename", <<(<<"zz", "q">>)>>),
     Step("set_types", <<(<<"v", "to_numeric">>)>>),
     Step("set_types", <<(<<"v", "to_numeric">>), (<<"w", "int">>)>>),
     Step("set_types", <<(<<"w", "int">>), (<<"v", "to_numeric">>)>>),
     Step("set_types", <<(<<"id", "key">>)>>),
     Step("drop_column", <<(<<"id", "key">>)>>),
     Step(LambdaExpr, <<(<<"id", "key">>)>>)}

\* The join specs the join section can list.
JoinPairs ==
    {<<"orders", "customers">>, <<"customers", "orders">>, <<"orders", "orders">>,
     <<"orders", "returns">>, <<"returns", "customers">>}
JoinOns == {<<"id", how>> : how \in JoinKinds} \cup {<<"key", "inner">>}
JoinSpecs ==
    {[source_1 |-> p[1], source_2 |-> p[2], on |-> o[1], how |-> o[2]] :
        p \in JoinPairs, o \in JoinOns}

\* -------------------------------------------------------------------- state
VARIABLES
    source_type,      \* configuration["source"]["type"]
    todo,             \* the keys of self.source the loading loop has yet to visit
    source_data_dct,  \* the table set
    pc,               \* where the run is
    nspecs,           \* table specs begun
    nsteps,           \* steps of the current table spec completed
    njoins,           \* join specs processed
    table_name,       \* table_name of the current table spec
    tr,               \* the step processed last in the current table spec
    df_in,            \* the frame that step's function was called with
                      \* (EmptyFrame while no call was made)
    join_t,           \* the join spec processed last
    merged,           \* <<>> while the name is unbound, else <<its frame>>
    discarded,        \* a join rebound merged away from a different frame
    changed,          \* the names whose entry a step has replaced by a different frame
    error,            \* the exception that ended the run, and where it was raised
    handed,           \* <<>>, or <<the frame write_data was called with>>
    nwrites,          \* calls of write_data
    engine,           \* "none", "created" or "disposed"
    written           \* <<>>, or <<the frame to_sql stored>>

vars == <<source_type, todo, source_data_dct, pc, nspecs, nsteps, njoins,
          table_name, tr, df_in, join_t, merged, discarded, changed, error,
          handed, nwrites, engine, written>>

NoStep == Step("", <<>>)
NoJoin == [source_1 |-> "", source_2 |-> "", on |-> "", how |-> ""]
NoError == [exc |-> "none", site |-> "none"]

\* Names the configured name can be evaluated to: the module's two
\* transformations, and whatever else the expression denotes.
Registered == {"rename", "set_types"}

\* eval(tr["name"]) : the value of the configured text as an expression.
Eval(name) ==
    IF name \in Registered THEN [exc |-> "none", fn |-> name]
    ELSE IF name = LambdaExpr THEN [exc |-> "none", fn |-> "<lambda>"]
    ELSE [exc |-> "NameError", fn |-> ""]

\* fn(df, parameters)
Call(fn, df, parameters) ==
    CASE fn = "rename" -> rename(df, parameters)
      [] fn = "set_types" -> set_types(df, parameters)
      [] fn = "<lambda>" -> Returned(df, df)

\* A run that does not store the step's result.
WriteBackDropped(dct, name, df) == dct

\* A run that stores the step's result under every name.
WriteBackAll(dct, name, df) == [n \in DOMAIN dct |-> df]

\* source_data_dct[table_name] = result
WriteBack(dct, name, df) == [dct EXCEPT ![name] = df]

\* A run whose joins chain: once merged is bound it is the left operand.
JoinInputsChained(dct, j) ==
    <<IF merged # <<>> THEN merged[1] ELSE dct[j.source_1], dct[j.source_2]>>

\* The operands of the join: both are entries of the table set.
JoinInputs(dct, j) == <<dct[j.source_1], dct[j.source_2]>>

\* A run that records the exception and goes on.
RaiseAndContinue(exc, site) ==
    /\ pc' = pc
    /\ error' = [exc |-> exc, site |-> site]

\* An exception nothing catches: the run ends where it was raised.
Raise(exc, site) ==
    /\ pc' = "failed"
    /\ error' = [exc |-> exc, site |-> site]

Init ==
    /\ source_type \in SourceTypes
    /\ todo = SourceKeys
    /\ source_data_dct = <<>>
    /\ pc = "load"
    /\ nspecs = 0
    /\ nsteps = 0
    /\ njoins = 0
    /\ table_name = ""
    /\ tr = NoStep
    /\ df_in = EmptyFrame
    /\ join_t = NoJoin
    /\ merged = <<>>
    /\ discarded = FALSE
    /\ changed = {}
    /\ error = NoError
    /\ handed = <<>>
    /\ nwrites = 0
    /\ engine = "none"
    /\ written = <<>>

\* One pass of the loading loop: SourceFactory.create_source(...).get_data()
\* for the next key.  The outcome is the frame of the directory's CSV file,
\* or the failure of the factory (a type other than csv), of the listing (no
\* such directory) or of the concatenation (no CSV file).  A directory that
\* is read holds one CSV file, so pd.concat gives that file's frame.
GetData ==
    /\ pc = "load"
    /\ todo # <<>>
    /\ LET k == Head(todo)
       IN \E outcome \in {"data", "FileNotFoundError", "ValueError"} :
            IF source_type # "csv"
            THEN /\ outcome = "ValueError"
                 /\ Raise("ValueError", "create_source")
                 /\ UNCHANGED <<todo, source_data_dct>>
            ELSE IF outcome # "data"
            THEN /\ Raise(outcome, "get_data")
                 /\ UNCHANGED <<todo, source_data_dct>>
            ELSE \E raw \in CsvContents(k) :
                 /\ source_data_dct' =
                        (k :> drop_duplicates(read_csv(raw))) @@ source_data_dct
                 /\ todo' = Tail(todo)
                 /\ pc' = IF Tail(todo) = <<>> THEN "tables" ELSE "load"
                 /\ UNCHANGED error
    /\ UNCHANGED <<source_type, nspecs, nsteps, njoins, table_name, tr, df_in,
                   join_t, merged, discarded, changed, handed, nwrites, engine,
                   written>>

\* The table loop takes its next spec: table_name and transformations are bound.
NextTableSpec ==
    /\ pc = "tables"
    /\ nspecs < MaxSpecs
    /\ \E name \in TableNames : table_name' = name
    /\ nspecs' = nspecs + 1
    /\ nsteps' = 0
    /\ tr' = NoStep
    /\ df_in' = EmptyFrame
    /\ pc' = "steps"
    /\ UNCHANGED <<source_type, todo, source_data_dct, njoins, join_t, merged,
                   discarded, changed, error, handed, nwrites, engine, written>>

\* One step of the current spec:
\*   source_data_dct[table_name] = eval(tr["name"])(source_data_dct[table_name], tr["parameters"])
\* The function expression is evaluated first, then the argument, then the
\* call is made and its result stored.  A call that raises stores nothing,
\* and leaves the entry as its assignments to the argument made it.
TransformStep ==
    /\ pc = "steps"
    /\ nsteps < MaxSteps
    /\ \E step \in Steps :
         LET fn == Eval(step.name)
         IN /\ tr' = step
            /\ IF fn.exc # "none"
               THEN /\ Raise(fn.exc, "eval")
                    /\ df_in' = EmptyFrame
                    /\ UNCHANGED <<source_data_dct, nsteps, changed>>
               ELSE IF table_name \notin DOMAIN source_data_dct
               THEN /\ Raise("KeyError", "source_data_dct")
                    /\ df_in' = EmptyFrame
                    /\ UNCHANGED <<source_data_dct, nsteps, changed>>
               ELSE LET df == source_data_dct[table_name]
                        res == Call(fn.fn, df, step.parameters)
                    IN /\ df_in' = df
                       /\ IF res.exc # "none"
                          THEN /\ Raise(res.exc, fn.fn)
                               /\ source_data_dct' =
                                      [source_data_dct EXCEPT ![table_name] = res.arg]
                               /\ UNCHANGED <<nsteps, changed>>
                          ELSE /\ source_data_dct' =
                                      WriteBack(source_data_dct, table_name, res.df)
                               /\ nsteps' = nsteps + 1
                               /\ changed' = IF res.df # df
                                             THEN changed \cup {table_name}
                                             ELSE changed
                               /\ UNCHANGED <<pc, error>>
    /\ UNCHANGED <<source_type, todo, nspecs, njoins, table_name, join_t, merged,
                   discarded, handed, nwrites, engine, written>>

\* The transformations of the current spec are exhausted.
StepsDone ==
    /\ pc = "steps"
    /\ pc' = "tables"
    /\ UNCHANGED <<source_type, todo, source_data_dct, nspecs, nsteps, njoins,
                   table_name, tr, df_in, join_t, merged, discarded, changed,
                   error, handed, nwrites, engine, written>>

\* The table specs are exhausted; the locals and the position of the loop are
\* dead from here.
TablesDone ==
    /\ pc = "tables"
    /\ pc' = "join"
    /\ table_name' = ""
    /\ tr' = NoStep
    /\ df_in' = EmptyFrame
    /\ nspecs' = 0
    /\ nsteps' = 0
    /\ UNCHANGED <<source_type, todo, source_data_dct, njoins, join_t,
                   merged, discarded, changed, error, handed, nwrites, engine,
                   written>>

\* One pass of the join loop:
\*   merged = source_data_dct[source_1].merge(source_data_dct[source_2], on=..., how=...)
Join ==
    /\ pc = "join"
    /\ njoins < MaxJoins
    /\ \E j \in JoinSpecs :
         /\ join_t' = j
         /\ njoins' = njoins + 1
         /\ IF {j.source_1, j.source_2} \subseteq DOMAIN source_data_dct
            THEN LET in == JoinInputs(source_data_dct, j)
                     res == merge(in[1], in[2], j.on, j.how)
                 IN IF res.exc # "none"
                    THEN /\ Raise(res.exc, "merge")
                         /\ UNCHANGED <<merged, discarded>>
                    ELSE /\ merged' = <<res.df>>
                         /\ discarded' = (discarded \/
                                (merged # <<>> /\ merged # <<res.df>>))
                         /\ UNCHANGED <<pc, error>>
            ELSE /\ Raise("KeyError", "source_data_dct")
                 /\ UNCHANGED <<merged, discarded>>
    /\ UNCHANGED <<source_type, todo, source_data_dct, nspecs, nsteps, table_name,
                   tr, df_in, changed, handed, nwrites, engine, written>>

\* The join specs are exhausted.
JoinsDone ==
    /\ pc = "join"
    /\ pc' = "write"
    /\ UNCHANGED <<source_type, todo, source_data_dct, nspecs, nsteps, njoins,
                   table_name, tr, df_in, join_t, merged, discarded, changed,
                   error, handed, nwrites, engine, written>>

\* self.destination.write_data(merged): the argument is evaluated, the call
\* is made and write_data creates its engine.
WriteData ==
    /\ pc = "write"
    /\ IF merged = <<>>
       THEN /\ Raise("UnboundLocalError", "merged")
            /\ UNCHANGED <<handed, nwrites, engine>>
       ELSE /\ handed' = merged
            /\ nwrites' = nwrites + 1
            /\ engine' = "created"
            /\ pc' = "to_sql"
            /\ UNCHANGED error
    /\ UNCHANGED <<source_type, todo, source_data_dct, nspecs, nsteps, njoins,
                   table_name, tr, df_in, join_t, merged, discarded, changed,
                   written>>

\* data.to_sql(...): the table is stored, or the database refuses.
ToSql ==
    /\ pc = "to_sql"
    /\ \E stored \in BOOLEAN :
         IF stored
         THEN /\ written' = handed
              /\ pc' = "dispose"
              /\ UNCHANGED error
         ELSE /\ Raise("OperationalError", "to_sql")
              /\ UNCHANGED written
    /\ UNCHANGED <<source_type, todo, source_data_dct, nspecs, nsteps, njoins,
                   table_name, tr, df_in, join_t, merged, discarded, changed,
                   handed, nwrites, engine>>

\* The message is written and engine.dispose() is called.
Dispose ==
    /\ pc = "dispose"
    /\ engine' = "disposed"
    /\ pc' = "done"
    /\ UNCHANGED <<source_type, todo, source_data_dct, nspecs, nsteps, njoins,
                   table_name, tr, df_in, join_t, merged, discarded, changed,
                   error, handed, nwrites, written>>

Next ==
    \/ GetData
    \/ NextTableSpec
    \/ TransformStep
    \/ StepsDone
    \/ TablesDone
    \/ Join
    \/ JoinsDone
    \/ WriteData
    \/ ToSql
    \/ Dispose

Spec == Init /\ [][Next]_vars

\* ------------------------------------------------------------- properties
\* The names the specification gives the failures of the code.
TableNotFoundError == [exc |-> "KeyError", site |-> "source_data_dct"]
UnknownTransformationError == [exc |-> "NameError", site |-> "eval"]

JoinOf(j) ==
    merge(source_data_dct[j.source_1], source_data_dct[j.source_2], j.on, j.how)

\* C1: the frame handed to the destination is the join of the table-set
\* entries the last join spec names, on its own on/how; no earlier join's
\* result is an operand or the output.
C1_LastJoinWins ==
    handed # <<>> =>
        /\ njoins >= 1
        /\ {join_t.source_1, join_t.source_2} \subseteq DOMAIN source_data_dct
        /\ JoinOf(join_t).exc = "none"
        /\ handed = <<JoinOf(join_t).df>>

\* Two joins ran, the first result differed from the second and was dropped,
\* and the second was handed to the destination.
C1_Witness ==
    /\ handed # <<>>
    /\ njoins >= 2
    /\ discarded
    /\ handed[1].rows # <<>>

\* C2 (as claimed): a run that reaches the write with no join processed
\* fails with NoJoinConfiguredError and writes nothing.
C2_NoJoinConfigured ==
    (/\ njoins = 0
     /\ \/ pc \in {"to_sql", "dispose", "done"}
        \/ pc = "failed" /\ error.site \in {"merged", "to_sql"})
    => /\ pc = "failed"
       /\ error.exc = "NoJoinConfiguredError"
       /\ nwrites = 0

\* C3 (as claimed): a step whose name is not a registered transformation
\* ends the run at that step with UnknownTransformationError, before any write.
C3_UnknownTransformationFails ==
    (tr # NoStep /\ tr.name \notin Registered)
    => /\ pc = "failed"
       /\ error = UnknownTransformationError
       /\ nwrites = 0

C5_MissingTableFails ==
    ~(/\ pc = "tables"
      /\ nspecs >= 1
      /\ table_name \notin DOMAIN source_data_dct)

\* C6 (as claimed): rename called with a key that is no column of the frame
\* fails with ColumnNotFoundError (raised in rename) and returns no frame.
C6_RenameAbsentFails ==
    (/\ tr.name = "rename"
     /\ df_in # EmptyFrame
     /\ ~(Keys(tr.parameters) \subseteq Range(df_in.cols)))
    => /\ pc = "failed"
       /\ error.site = "rename"

\* C7 (as claimed): when the run has ended, an engine that write_data
\* created has been disposed.
C7_EngineReleased ==
    (pc \in {"done", "failed"} /\ engine # "none") => engine = "disposed"

NumericParsable(c) ==
    \/ c.kind \in {"int", "float"}
    \/ c.kind = "str" /\ c.val \in Range(IntLits) \cup Range(FloatLits)

Castable(c, t) == t = "str" \/ c.kind \in {"int", "float"}
                      \/ (c.kind = "str" /\ c.val \in Range(IntLits))

\* Row i of df survives the numeric coercions among the first n parameters.
Survives(df, parameters, n, i) ==
    \A q \in 1..n :
        parameters[q][2] = "to_numeric" =>
            NumericParsable(df.rows[i][IndexOf(df.cols, parameters[q][1])])

SetTypesCalled == tr.name = "set_types" /\ df_in # EmptyFrame

\* C9: after set_types returned, the entry holds exactly the rows of its
\* input that are parsable in every coerced column, in their order, with the
\* parsed numbers in the coerced columns and the other columns untouched; and
\* a cast fails only on a row that survived the coercions before it.
C9_SetTypesSequential ==
    /\ (SetTypesCalled /\ pc \in {"steps", "tables"}) =>
          LET p == tr.parameters
              out == source_data_dct[table_name]
              kept == FilterRows(df_in.rows,
                         [i \in 1..Len(df_in.rows) |-> Survives(df_in, p, Len(p), i)])
          IN /\ out.cols = df_in.cols
             /\ Len(out.rows) = Len(kept)
             /\ \A i \in 1..Len(kept) : \A j \in 1..Len(out.cols) :
                   IF out.cols[j] \notin Keys(p) THEN out.rows[i][j] = kept[i][j]
                   ELSE IF Lookup(p, out.cols[j]) = "to_numeric"
                   THEN /\ out.rows[i][j].kind \in {"int", "float"}
                        /\ KeyOf(out.rows[i][j]) = KeyOf(ToNumericCell(kept[i][j]))
                   ELSE out.rows[i][j].kind = Lookup(p, out.cols[j])
    /\ (SetTypesCalled /\ pc = "failed" /\ error.exc = "ValueError") =>
          LET p == tr.parameters
          IN \E n \in 1..Len(p) : \E i \in 1..Len(df_in.rows) :
                /\ p[n][2] \in Dtypes
                /\ Survives(df_in, p, n - 1, i)
                /\ ~Castable(df_in.rows[i][IndexOf(df_in.cols, p[n][1])], p[n][2])

\* set_types coerced v and then cast w: a row unparsable in v and not
\* castable in w was dropped by the coercion, and the cast succeeded on the rest.
C9_Witness ==
    /\ SetTypesCalled
    /\ pc = "steps"
    /\ tr.parameters = <<(<<"v", "to_numeric">>), (<<"w", "int">>)>>
    /\ Len(source_data_dct[table_name].rows) = 1
    /\ Len(df_in.rows) = 2
    /\ \E i \in 1..2 :
          /\ ~NumericParsable(df_in.rows[i][IndexOf(df_in.cols, "v")])
          /\ ~Castable(df_in.rows[i][IndexOf(df_in.cols, "w")], "int")

====
